---- MODULE Spec2Model ----
(***************************************************************************)
(* A model of mlx_embeddings/models/xlm-roberta.py: the padding-aware      *)
(* position indexer, the embedding layer, multi-head self-attention, the    *)
(* encoder layer stack, the pooler and the top-level Model.                 *)
(*                                                                          *)
(* Tensors are records [shape, data] with the data in row-major order, as   *)
(* the array runtime lays them out, so that reshape keeps the data and      *)
(* transpose moves it.  Floating-point values are quantised to integers:    *)
(* every elementwise primitive of the runtime (LayerNorm, GELU, tanh,       *)
(* softmax, the 1/sqrt scaling) is its real-valued result rounded to the    *)
(* nearest integer (softmax to the nearest 1/PUnit).                        *)
(***************************************************************************)
EXTENDS Integers, Sequences, FiniteSets, TLC

\* ------------------------------------------------------------------ bounds
MaxSeq == 2
MaxTokens == 4
MaxTok == 2
MaxPast == 1
MaxLayers == 2
PUnit == 8
ExpClamp == 4

\* -------------------------------------------------------------- arithmetic
Abs(a) == IF a < 0 THEN -a ELSE a

Sgn(a) == IF a > 0 THEN 1 ELSE IF a < 0 THEN -1 ELSE 0

Max2(a, b) == IF a >= b THEN a ELSE b

Min2(a, b) == IF a <= b THEN a ELSE b

\* a / b rounded to the nearest integer (b > 0), halves away from zero
RoundDiv(a, b) == Sgn(a) * ((2 * Abs(a) + b) \div (2 * b))

\* sqrt(num / den) rounded to the nearest integer (num >= 0, den > 0)
RoundSqrt(num, den) ==
    CHOOSE n \in 0..(num + 1) :
        /\ (n = 0 \/ (2 * n - 1) * (2 * n - 1) * den <= 4 * num)
        /\ (2 * n + 1) * (2 * n + 1) * den > 4 * num

\* sqrt(num / (den + eps)) rounded to the nearest integer for a tiny eps > 0:
\* an exact half rounds down
RoundSqrtEps(num, den) ==
    CHOOSE n \in 0..(num + 1) :
        /\ (n = 0 \/ (2 * n - 1) * (2 * n - 1) * den < 4 * num)
        /\ (2 * n + 1) * (2 * n + 1) * den >= 4 * num

RECURSIVE Pow(_, _)
Pow(b, e) == IF e = 0 THEN 1 ELSE b * Pow(b, e - 1)

RECURSIVE SumSeq(_)
SumSeq(s) == IF s = <<>> THEN 0 ELSE Head(s) + SumSeq(Tail(s))

RECURSIVE Prod(_)
Prod(s) == IF s = <<>> THEN 1 ELSE Head(s) * Prod(Tail(s))

RECURSIVE MaxSeqOf(_)
MaxSeqOf(s) == IF Len(s) = 1 THEN s[1] ELSE Max2(Head(s), MaxSeqOf(Tail(s)))

\* ----------------------------------------------------------------- tensors
Tensor(shape, data) == [shape |-> shape, data |-> data]

\* Op applied to the value of an expression, the expression evaluated once
Force(v0, Op(_)) == CHOOSE r \in {Op(v) : v \in {v0}} : TRUE

Force2(a0, b0, Op(_, _)) == CHOOSE r \in {Op(a, b) : a \in {a0}, b \in {b0}} : TRUE

\* the element of a tensor at a 0-based multi-index, row-major
At2(x, r, c) == x.data[r * x.shape[2] + c + 1]

At3(x, b, s, h) == x.data[(b * x.shape[2] + s) * x.shape[3] + h + 1]

At4(x, a, b, c, d) ==
    x.data[((a * x.shape[2] + b) * x.shape[3] + c) * x.shape[4] + d + 1]

\* the sequence F(1), ..., F(n), each element computed once
Gen(n, F(_)) ==
    LET g[k \in 0..n] == IF k = 0 THEN <<>> ELSE Append(g[k - 1], F(k))
    IN  g[n]

\* a tensor of the given shape from a function of the 0-based flat index
Build(shape, F(_)) == Tensor(shape, Gen(Prod(shape), LAMBDA k : F(k - 1)))

\* all rank-2 tensors of shape (b, s) with elements in vals
Tensors2(b, s, vals) == {Tensor(<<b, s>>, d) : d \in [1..(b * s) -> vals]}

\* x.reshape(shape): the same data under another shape
Reshape(x, shape) == Tensor(shape, x.data)

\* elementwise operations of the runtime
Map(x0, F(_)) ==
    Force(x0, LAMBDA x : Tensor(x.shape, Gen(Len(x.data), LAMBDA k : F(x.data[k]))))

Add(x0, y0) ==
    Force2(x0, y0, LAMBDA x, y :
        Tensor(x.shape, Gen(Len(x.data), LAMBDA k : x.data[k] + y.data[k])))

Mul(x0, y0) ==
    Force2(x0, y0, LAMBDA x, y :
        Tensor(x.shape, Gen(Len(x.data), LAMBDA k : x.data[k] * y.data[k])))

AddScalar(x, c) == Map(x, LAMBDA v : v + c)

\* input_ids.ne(padding_idx).int()
Ne(x, c) == Map(x, LAMBDA v : IF v # c THEN 1 ELSE 0)

\* torch.cumsum(x, dim=1) of a rank-2 tensor: a running sum along each row
RECURSIVE CumsumAt(_, _, _)
CumsumAt(x, r, c) ==
    IF c = 0 THEN At2(x, r, 0) ELSE CumsumAt(x, r, c - 1) + At2(x, r, c)

Cumsum1(x0) ==
    Force(x0, LAMBDA x :
        Build(x.shape, LAMBDA k : CumsumAt(x, k \div x.shape[2], k % x.shape[2])))

\* shape[:-1]
DropLast(shape) == SubSeq(shape, 1, Len(shape) - 1)

\* the shape with its last axis replaced by n
WithLast(shape, n) == SubSeq(shape, 1, Len(shape) - 1) \o <<n>>

Last(shape) == shape[Len(shape)]

\* x.transpose(0, 2, 1, 3) of a rank-4 tensor
Transpose0213(x0) ==
    Force(x0, LAMBDA x :
        LET B == x.shape[2]
            C == x.shape[3]
            D == x.shape[4]
        IN  Build(<<x.shape[1], C, B, D>>,
                  LAMBDA k : At4(x, k \div (C * B * D), (k \div D) % B,
                                 (k \div (B * D)) % C, k % D)))

\* x.swapaxes(-1, -2) of a rank-4 tensor
SwapLast2(x0) ==
    Force(x0, LAMBDA x :
        LET B == x.shape[2]
            C == x.shape[3]
            D == x.shape[4]
        IN  Build(<<x.shape[1], B, D, C>>,
                  LAMBDA k : At4(x, k \div (B * D * C), (k \div (D * C)) % B,
                                 k % C, (k \div C) % D)))

\* x @ y of rank-4 tensors: a matrix product over the last two axes
MatMul(x0, y0) ==
    Force2(x0, y0, LAMBDA x, y :
        LET B == x.shape[2]
            M == x.shape[3]
            K == x.shape[4]
            N == y.shape[4]
        IN  Build(<<x.shape[1], B, M, N>>,
                  LAMBDA k :
                      LET a == k \div (B * M * N)
                          b == (k \div (M * N)) % B
                          m == (k \div N) % M
                          n == k % N
                      IN  SumSeq([j \in 1..K |->
                                     At4(x, a, b, m, j - 1) * At4(y, a, b, j - 1, n)])))

\* nn.Linear: x @ W.T + bias over the last axis; W is a sequence of output rows
Linear(W0, bias0, x0) ==
    Force2(W0, bias0, LAMBDA W, bias : Force(x0, LAMBDA x :
        LET nin == Last(x.shape)
            nout == Len(W)
        IN  Build(WithLast(x.shape, nout),
                  LAMBDA k :
                      LET row == k \div nout
                          o == (k % nout) + 1
                      IN  bias[o] + SumSeq([i \in 1..nin |->
                                               x.data[row * nin + i] * W[o][i]]))))

\* (v - mean) / sqrt(var + eps) for element j of the sequence vals of length H,
\* rounded to the nearest integer
Normalized(vals, H, j) ==
    LET total == SumSeq(vals)
        S == SumSeq([i \in 1..H |-> (H * vals[i] - total) * (H * vals[i] - total)])
        dj == H * vals[j] - total
    IN  IF S = 0 THEN 0 ELSE Sgn(dj) * RoundSqrtEps(dj * dj * H, S)

\* nn.LayerNorm over the last axis with unit scale and zero bias
LayerNorm(x0) ==
    Force(x0, LAMBDA x :
        LET H == Last(x.shape)
        IN  Build(x.shape,
                  LAMBDA k : Normalized(SubSeq(x.data, (k \div H) * H + 1, (k \div H) * H + H),
                                        H, (k % H) + 1)))

\* nn.Dropout in inference mode
Dropout(x) == x

\* nn.gelu rounded to the nearest integer: gelu(v) is within 0.16 of max(v, 0)
Gelu(x) == Map(x, LAMBDA v : Max2(v, 0))

\* nn.Tanh rounded to the nearest integer: tanh(1) = 0.76
Tanh(x) == Map(x, LAMBDA v : Sgn(v))

\* x / mx.sqrt(n), rounded to the nearest integer
DivSqrt(x, n) == Map(x, LAMBDA v : Sgn(v) * RoundSqrt(v * v, n))

\* e^v / sum(e^vals) for element j of the sequence vals in units of 1/PUnit, with
\* e taken as 19/7 and differences from the maximum beyond ExpClamp cut to ExpClamp
SoftmaxAt(vals, j) ==
    LET m == MaxSeqOf(vals)
        w == [n \in 1..Len(vals) |->
                 Pow(7, Min2(m - vals[n], ExpClamp))
                 * Pow(19, ExpClamp - Min2(m - vals[n], ExpClamp))]
    IN  RoundDiv(PUnit * w[j], SumSeq(w))

\* nn.softmax(x, axis=-1)
Softmax(x0) ==
    Force(x0, LAMBDA x :
        LET L == Last(x.shape)
        IN  Build(x.shape,
                  LAMBDA k : SoftmaxAt(SubSeq(x.data, (k \div L) * L + 1, (k \div L) * L + L),
                                       (k % L) + 1)))

\* probs @ values where probs is in units of 1/PUnit
WeightedSum(probs, values) == Map(MatMul(probs, values), LAMBDA v : RoundDiv(v, PUnit))

\* scores + attention_mask with the mask of shape (batch, 1, 1, seq) broadcast
AddMask(scores0, mask0) ==
    Force2(scores0, mask0, LAMBDA scores, mask :
        LET B == scores.shape[2]
            M == scores.shape[3]
            N == scores.shape[4]
        IN  Build(scores.shape,
                  LAMBDA k : scores.data[k + 1]
                             + At4(mask, k \div (B * M * N), 0, 0, k % N)))

\* probs * head_mask with the mask of shape (heads, 1, 1) broadcast
MulHeadMask(probs0, mask0) ==
    Force2(probs0, mask0, LAMBDA probs, mask :
        LET B == probs.shape[2]
            M == probs.shape[3]
            N == probs.shape[4]
        IN  Build(probs.shape,
                  LAMBDA k : probs.data[k + 1] * mask[((k \div (M * N)) % B) + 1]))

\* x + y of rank-3 tensors with y broadcast along the batch axis when it is 1
AddBroadcast(x0, y0) ==
    Force2(x0, y0, LAMBDA x, y :
        LET S == x.shape[2]
            H == x.shape[3]
        IN  Build(x.shape,
                  LAMBDA k : x.data[k + 1]
                             + At3(y, IF y.shape[1] = 1 THEN 0 ELSE k \div (S * H),
                                   (k \div H) % S, k % H)))

\* nn.Embedding: the rows of a table selected by a rank-2 tensor of ids
Embedding(Row(_), H, ids0) ==
    Force(ids0, LAMBDA ids :
        Build(ids.shape \o <<H>>, LAMBDA k : Row(ids.data[(k \div H) + 1])[(k % H) + 1]))

\* hidden_states[:, 0] of a rank-3 tensor
FirstToken(x0) ==
    Force(x0, LAMBDA x :
        Build(<<x.shape[1], x.shape[3]>>,
              LAMBDA k : At3(x, k \div x.shape[3], 0, k % x.shape[3])))

\* mx.arange(lo, hi)[None, :]
ArangeRow(lo, hi) == Tensor(<<1, hi - lo>>, Gen(hi - lo, LAMBDA k : lo + k - 1))

\* ------------------------------------------------------- position indexer
\* A variant that adds the offset after the mask is applied, so that padding
\* positions get it too.
create_position_ids_past_on_all(input_ids, padding_idx, past_key_values_length) ==
    LET mask == Ne(input_ids, padding_idx)
        incremental_indices == AddScalar(Mul(Cumsum1(mask), mask), past_key_values_length)
    IN  AddScalar(incremental_indices, padding_idx)

\* A variant that numbers every token, padding included.
create_position_ids_counting_padding(input_ids, padding_idx, past_key_values_length) ==
    LET mask == Ne(input_ids, padding_idx)
        ones == Map(input_ids, LAMBDA v : 1)
        incremental_indices == Mul(AddScalar(Cumsum1(ones), past_key_values_length), mask)
    IN  AddScalar(incremental_indices, padding_idx)

create_position_ids_from_input_ids(input_ids, padding_idx, past_key_values_length) ==
    LET mask == Ne(input_ids, padding_idx)
        incremental_indices == Mul(AddScalar(Cumsum1(mask), past_key_values_length), mask)
    IN  AddScalar(incremental_indices, padding_idx)

\* --------------------------------------------------------- python values
\* an optional argument: None, or the value given
None == <<>>

Some(v) == <<v>>

\* the elements of the result tuples: a tensor, a tuple of tensors, or None
PyNone == [kind |-> "None", items |-> <<>>]

PyTensor(t) == [kind |-> "tensor", items |-> <<t>>]

PyTuple(ts) == [kind |-> "tuple", items |-> ts]

\* ------------------------------------------------------------ parameters
\* The parameter tensors are loaded from a checkpoint; the model fixes small
\* integer values that differ from layer to layer and from matrix to matrix.
WMat(seed, nout, nin) ==
    [o \in 1..nout |-> [i \in 1..nin |-> ((seed + 3 * o + 5 * i + o * i) % 5) - 2]]

WBias(seed, nout) == [o \in 1..nout |-> ((seed + 2 * o) % 3) - 1]

word_embeddings(config, id) ==
    [j \in 1..config.hidden_size |-> ((3 * id + 2 * j + 1) % 5) - 2]

position_embeddings(config, id) ==
    [j \in 1..config.hidden_size |-> ((2 * id + 3 * j) % 5) - 2]

token_type_embeddings(config, id) ==
    [j \in 1..config.hidden_size |-> ((id + j) % 3) - 1]

\* ------------------------------------------------------------ embeddings
\* The locals of XLMRobertaEmbeddings.__call__ at its return.
XLMRobertaEmbeddings(config, input_ids, token_type_ids, position_ids, inputs_embeds) ==
    LET input_shape == IF input_ids # None THEN input_ids[1].shape
                       ELSE DropLast(inputs_embeds[1].shape)
        seq_length == input_shape[2]
        padding_idx == config.pad_token_id
        position_ids_1 == IF position_ids = None
                          THEN ArangeRow(padding_idx + 1, seq_length + padding_idx + 1)
                          ELSE position_ids[1]
        token_type_ids_1 == IF token_type_ids = None
                            THEN Build(<<input_shape[1], input_shape[2]>>, LAMBDA k : 0)
                            ELSE token_type_ids[1]
        inputs_embeds_1 == IF inputs_embeds = None
                           THEN Embedding(LAMBDA id : word_embeddings(config, id),
                                          config.hidden_size, input_ids[1])
                           ELSE inputs_embeds[1]
        token_type_embeddings_1 ==
            Embedding(LAMBDA id : token_type_embeddings(config, id),
                      config.hidden_size, token_type_ids_1)
        position_embeddings_1 ==
            Embedding(LAMBDA id : position_embeddings(config, id),
                      config.hidden_size, position_ids_1)
        embeddings == AddBroadcast(Add(inputs_embeds_1, token_type_embeddings_1),
                                   position_embeddings_1)
    IN  [position_ids |-> position_ids_1,
         embeddings |-> Dropout(LayerNorm(embeddings))]

\* -------------------------------------------------------- self-attention
attention_head_size(config) == config.hidden_size \div config.num_attention_heads

all_head_size(config) == config.num_attention_heads * attention_head_size(config)

\* A variant that reshapes straight to (batch, heads, seq, head_size) without
\* swapping the axes.
transpose_for_scores_no_transpose(config, x) ==
    Force(x, LAMBDA v :
        Reshape(v, <<v.shape[1], config.num_attention_heads, v.shape[2],
                     attention_head_size(config)>>))

transpose_for_scores(config, x) ==
    Force(x, LAMBDA v :
        LET new_x_shape == WithLast(v.shape, config.num_attention_heads)
                           \o <<attention_head_size(config)>>
        IN  Transpose0213(Reshape(v, new_x_shape)))

\* context_layer.transpose(0, 2, 1, 3).reshape(shape[:-2] + (all_head_size,))
merge_heads(config, context_layer) ==
    Force(Transpose0213(context_layer), LAMBDA t :
        Reshape(t, <<t.shape[1], t.shape[2], all_head_size(config)>>))

\* The result tuple of XLMRobertaSelfAttention.__call__ of layer k.
XLMRobertaSelfAttention(config, k, x, attention_mask, head_mask, output_attentions) ==
    LET H == config.hidden_size
        A == all_head_size(config)
        queries == transpose_for_scores(config, Linear(WMat(7 * k + 1, A, H), WBias(7 * k + 1, A), x))
        keys == transpose_for_scores(config, Linear(WMat(7 * k + 2, A, H), WBias(7 * k + 2, A), x))
        values == transpose_for_scores(config, Linear(WMat(7 * k + 3, A, H), WBias(7 * k + 3, A), x))
        scores_0 == DivSqrt(MatMul(queries, SwapLast2(keys)), attention_head_size(config))
        attention_scores == IF attention_mask # None
                            THEN AddMask(scores_0, attention_mask[1])
                            ELSE scores_0
        probs_0 == Softmax(attention_scores)
    IN  Force(IF head_mask # None THEN MulHeadMask(probs_0, head_mask[1]) ELSE probs_0,
              LAMBDA attention_probs :
                  LET context_layer == merge_heads(config, WeightedSum(attention_probs, values))
                  IN  IF output_attentions THEN <<context_layer, attention_probs>>
                      ELSE <<context_layer>>)

\* ------------------------------------------------------- attention output
\* A variant that normalizes the dense output and adds the residual afterwards.
XLMRobertaSelfOutput_norm_then_add(config, k, hidden_states, input_tensor) ==
    LET H == config.hidden_size
        dense == Linear(WMat(7 * k + 4, H, H), WBias(7 * k + 4, H), hidden_states)
    IN  Add(LayerNorm(Dropout(dense)), input_tensor)

XLMRobertaSelfOutput(config, k, hidden_states, input_tensor) ==
    LET H == config.hidden_size
        dense == Linear(WMat(7 * k + 4, H, H), WBias(7 * k + 4, H), hidden_states)
    IN  LayerNorm(Add(Dropout(dense), input_tensor))

\* A variant that passes the self-attention's result on whole, context first.
XLMRobertaAttention_keep_context(config, k, hidden_states, attention_mask, head_mask, output_attentions) ==
    Force(XLMRobertaSelfAttention(config, k, hidden_states, attention_mask, head_mask,
                                  output_attentions),
          LAMBDA self_outputs :
              LET attention_output ==
                      XLMRobertaSelfOutput(config, k, self_outputs[1], hidden_states)
              IN  [self_outputs |-> self_outputs,
                   outputs |-> <<attention_output>> \o self_outputs])

\* The locals of XLMRobertaAttention.__call__ of layer k at its return.
XLMRobertaAttention(config, k, hidden_states, attention_mask, head_mask, output_attentions) ==
    Force(XLMRobertaSelfAttention(config, k, hidden_states, attention_mask, head_mask,
                                  output_attentions),
          LAMBDA self_outputs :
              LET attention_output ==
                      XLMRobertaSelfOutput(config, k, self_outputs[1], hidden_states)
              IN  [self_outputs |-> self_outputs,
                   outputs |-> <<attention_output>> \o Tail(self_outputs)])

\* ------------------------------------------------------------ feed-forward
XLMRobertaIntermediate(config, k, hidden_states) ==
    Gelu(Linear(WMat(7 * k + 5, config.intermediate_size, config.hidden_size),
                WBias(7 * k + 5, config.intermediate_size), hidden_states))

XLMRobertaOutput(config, k, hidden_states, input_tensor) ==
    LET dense == Linear(WMat(7 * k + 6, config.hidden_size, config.intermediate_size),
                        WBias(7 * k + 6, config.hidden_size), hidden_states)
    IN  LayerNorm(Add(Dropout(dense), input_tensor))

\* ----------------------------------------------------------- encoder layer
\* The locals of XLMRobertaLayer.__call__ of layer k at its return.
XLMRobertaLayer(config, k, hidden_states, attention_mask, head_mask, output_attentions) ==
    Force(XLMRobertaAttention(config, k, hidden_states, attention_mask, head_mask,
                              output_attentions),
          LAMBDA attention :
              Force(XLMRobertaIntermediate(config, k, attention.outputs[1]),
                    LAMBDA intermediate_output :
                        LET attention_outputs == attention.outputs
                            attention_output == attention_outputs[1]
                            layer_output == XLMRobertaOutput(config, k, intermediate_output,
                                                             attention_output)
                        IN  [hidden_states |-> hidden_states,
                             self_outputs |-> attention.self_outputs,
                             attention_outputs |-> attention_outputs,
                             intermediate_output |-> intermediate_output,
                             outputs |-> <<layer_output>> \o Tail(attention_outputs)]))

\* ------------------------------------------------------------------ pooler
XLMRobertaPooler(config, hidden_states) ==
    LET first_token_tensor == FirstToken(hidden_states)
        H == config.hidden_size
    IN  Tanh(Linear(WMat(0, H, H), WBias(0, H), first_token_tensor))

\* ----------------------------------------------------------------- encoder
\* The locals of XLMRobertaEncoder.__call__ after lines 202-203.
EncoderEntry(hidden_states, attention_mask, head_mask, output_attentions, output_hidden_states) ==
    [hidden_states |-> hidden_states,
     attention_mask |-> attention_mask,
     head_mask |-> head_mask,
     output_attentions |-> output_attentions,
     output_hidden_states |-> output_hidden_states,
     all_hidden_states |-> IF output_hidden_states THEN PyTuple(<<>>) ELSE PyNone,
     all_attentions |-> IF output_attentions THEN PyTuple(<<>>) ELSE PyNone,
     layer |-> None]

\* head_mask[i] if head_mask is not None else None
LayerHeadMask(head_mask, i) == IF head_mask # None THEN Some(head_mask[1][i + 1]) ELSE None

\* A variant that records the hidden state after the layer has run.
EncoderIteration_record_after_layer(config, i, loc) ==
    Force(XLMRobertaLayer(config, i, loc.hidden_states, loc.attention_mask,
                          LayerHeadMask(loc.head_mask, i), loc.output_attentions),
          LAMBDA frame :
              [loc EXCEPT
                  !.all_hidden_states =
                      IF loc.output_hidden_states
                      THEN PyTuple(Append(loc.all_hidden_states.items, frame.outputs[1]))
                      ELSE loc.all_hidden_states,
                  !.hidden_states = frame.outputs[1],
                  !.all_attentions =
                      IF loc.output_attentions
                      THEN PyTuple(Append(loc.all_attentions.items, frame.outputs[2]))
                      ELSE loc.all_attentions,
                  !.layer = Some(frame)])

\* One iteration of the loop over self.layer: the locals after iteration i.
EncoderIteration(config, i, loc) ==
    Force(XLMRobertaLayer(config, i, loc.hidden_states, loc.attention_mask,
                          LayerHeadMask(loc.head_mask, i), loc.output_attentions),
          LAMBDA frame :
              [loc EXCEPT
                  !.all_hidden_states =
                      IF loc.output_hidden_states
                      THEN PyTuple(Append(loc.all_hidden_states.items, loc.hidden_states))
                      ELSE loc.all_hidden_states,
                  !.hidden_states = frame.outputs[1],
                  !.all_attentions =
                      IF loc.output_attentions
                      THEN PyTuple(Append(loc.all_attentions.items, frame.outputs[2]))
                      ELSE loc.all_attentions,
                  !.layer = Some(frame)])

\* A variant that returns the three values unfiltered, None included.
EncoderResult_keep_markers(loc) ==
    LET all_hidden_states_1 ==
            IF loc.output_hidden_states
            THEN PyTuple(Append(loc.all_hidden_states.items, loc.hidden_states))
            ELSE loc.all_hidden_states
    IN  <<PyTensor(loc.hidden_states), all_hidden_states_1, loc.all_attentions>>

\* The tuple XLMRobertaEncoder.__call__ returns after the loop.
EncoderResult(loc) ==
    LET all_hidden_states_1 ==
            IF loc.output_hidden_states
            THEN PyTuple(Append(loc.all_hidden_states.items, loc.hidden_states))
            ELSE loc.all_hidden_states
    IN  SelectSeq(<<PyTensor(loc.hidden_states), all_hidden_states_1, loc.all_attentions>>,
                  LAMBDA v : v # PyNone)

\* ------------------------------------------------------------------- model
\* A variant that pools whatever the configuration says.
ModelResult_always_pool(config, pooler, encoder_outputs) ==
    LET sequence_output == encoder_outputs[1]
        pooled_output == PyTensor(XLMRobertaPooler(config, sequence_output.items[1]))
    IN  <<sequence_output, pooled_output>> \o Tail(encoder_outputs)

\* The tuple Model.__call__ returns, from the encoder's result.
ModelResult(config, pooler, encoder_outputs) ==
    LET sequence_output == encoder_outputs[1]
        pooled_output == IF pooler # None
                         THEN PyTensor(XLMRobertaPooler(config, sequence_output.items[1]))
                         ELSE PyNone
    IN  <<sequence_output, pooled_output>> \o Tail(encoder_outputs)

\* ------------------------------------------------------------------- state
VARIABLES
    config,            \* the ModelArgs the Model was built from
    pooler,            \* Model.pooler: None, or the pooler
    pc,                \* where the call is: idle, encoder, encoder_returned, done
    caller,            \* who called the encoder: "Model", or "Encoder" for a direct call
    m_input_ids,       \* Model.__call__: the input_ids argument
    m_position_ids,    \* Model.__call__: the position_ids argument (None when omitted)
    want_hidden_states, \* whether Model's caller wants the hidden-state history
    want_attentions,   \* whether Model's caller wants the attention probabilities
    position_ids_used, \* XLMRobertaEmbeddings.__call__: position_ids at the lookup
    encoder_input,     \* the hidden_states argument XLMRobertaEncoder.__call__ got
    enc,               \* XLMRobertaEncoder.__call__: its locals
    i,                 \* XLMRobertaEncoder.__call__: the loop index
    encoder_outputs,   \* the tuple the encoder returned
    model_outputs,     \* the tuple Model.__call__ returned
    p_input_ids,       \* create_position_ids_from_input_ids: input_ids
    p_padding_idx,     \* create_position_ids_from_input_ids: padding_idx
    p_past,            \* create_position_ids_from_input_ids: past_key_values_length
    p_result,          \* its result with past_key_values_length given
    p_result_default,  \* its result with past_key_values_length left at 0
    h_config,          \* head split/merge: the attention configuration
    h_x,               \* head split/merge: a projected (batch, seq, hidden) tensor
    h_split,           \* transpose_for_scores(h_x)
    h_merged,          \* the split tensor merged back
    h_context          \* the merged context under identity attention probabilities

vars == <<config, pooler, pc, caller, m_input_ids, m_position_ids, want_hidden_states,
          want_attentions, position_ids_used, encoder_input, enc, i, encoder_outputs,
          model_outputs, p_input_ids, p_padding_idx, p_past, p_result, p_result_default,
          h_config, h_x, h_split, h_merged, h_context>>

model_vars == <<config, pooler, pc, caller, m_input_ids, m_position_ids, want_hidden_states,
                want_attentions, position_ids_used, encoder_input, enc, i, encoder_outputs,
                model_outputs>>

position_vars == <<p_input_ids, p_padding_idx, p_past, p_result, p_result_default>>

head_vars == <<h_config, h_x, h_split, h_merged, h_context>>

\* ------------------------------------------------------------------ inputs
BatchSizes == {1, 2}

\* ModelArgs: the configurations the model is built from
Configs ==
    {[hidden_size |-> 4,
      num_hidden_layers |-> n,
      intermediate_size |-> 3,
      num_attention_heads |-> 2,
      add_pooling_layer |-> p,
      type_vocab_size |-> 1,
      pad_token_id |-> 1,
      vocab_size |-> 2] : n \in 0..MaxLayers, p \in BOOLEAN}

\* the (batch, seq) shapes of the inputs
Shapes == {<<b, s>> \in BatchSizes \X (1..MaxSeq) : b * s <= MaxTokens}

\* the input_ids a model of the given configuration is called with
InputIds(cfg) == UNION {Tensors2(sh[1], sh[2], 0..(cfg.vocab_size - 1)) : sh \in Shapes}

\* an additive attention mask of shape (batch, 1, 1, seq) that hides the padding
PaddingMask(input_ids, padding_idx) ==
    Build(<<input_ids.shape[1], 1, 1, input_ids.shape[2]>>,
          LAMBDA k : IF input_ids.data[k + 1] = padding_idx THEN 0 - 100 ELSE 0)

Zeros2(shape) == Build(shape, LAMBDA k : 0)

\* a head mask for every layer: one multiplier per head
HeadMasks(cfg) ==
    {[k \in 1..cfg.num_hidden_layers |-> [h \in 1..cfg.num_attention_heads |-> h % 2]]}

ModelIdle ==
    /\ pooler = None
    /\ pc = "off"
    /\ caller = "nobody"
    /\ m_input_ids = None
    /\ m_position_ids = None
    /\ want_hidden_states = FALSE
    /\ want_attentions = FALSE
    /\ position_ids_used = None
    /\ encoder_input = None
    /\ enc = None
    /\ i = 0
    /\ encoder_outputs = <<>>
    /\ model_outputs = <<>>

PositionsIdle ==
    /\ p_input_ids = None
    /\ p_padding_idx = 0
    /\ p_past = 0
    /\ p_result = None
    /\ p_result_default = None

HeadsIdle ==
    /\ h_config = None
    /\ h_x = None
    /\ h_split = None
    /\ h_merged = None
    /\ h_context = None

\* ------------------------------------------------------- the model's calls
\* Model.__init__
Init ==
    /\ config \in Configs
    /\ pooler = IF config.add_pooling_layer THEN Some("XLMRobertaPooler") ELSE None
    /\ pc = "idle"
    /\ caller = "nobody"
    /\ m_input_ids = None
    /\ m_position_ids = None
    /\ want_hidden_states = FALSE
    /\ want_attentions = FALSE
    /\ position_ids_used = None
    /\ encoder_input = None
    /\ enc = None
    /\ i = 0
    /\ encoder_outputs = <<>>
    /\ model_outputs = <<>>
    /\ PositionsIdle
    /\ HeadsIdle

\* Model.__call__ up to the loop of the encoder it calls: the embeddings, then
\* the encoder entered with the attention mask and every other argument defaulted.
\* Model.__call__ has no parameter for what its caller wants accumulated.
ModelCall ==
    /\ pc = "idle"
    /\ \E input_ids \in InputIds(config), masked \in BOOLEAN, typed \in BOOLEAN,
          positioned \in BOOLEAN, whs \in BOOLEAN, wat \in BOOLEAN :
          LET attention_mask == IF masked
                                THEN Some(PaddingMask(input_ids, config.pad_token_id))
                                ELSE None
              token_type_ids == IF typed THEN Some(Zeros2(input_ids.shape)) ELSE None
              position_ids ==
                  IF positioned
                  THEN Some(create_position_ids_from_input_ids(input_ids, config.pad_token_id, 0))
                  ELSE None
          IN  \E emb \in {XLMRobertaEmbeddings(config, Some(input_ids), token_type_ids,
                                                position_ids, None)} :
              /\ m_input_ids' = Some(input_ids)
              /\ m_position_ids' = position_ids
              /\ want_hidden_states' = whs
              /\ want_attentions' = wat
              /\ position_ids_used' = Some(emb.position_ids)
              /\ encoder_input' = Some(emb.embeddings)
              /\ enc' = Some(EncoderEntry(emb.embeddings, attention_mask, None, FALSE, FALSE))
    /\ caller' = "Model"
    /\ i' = 0
    /\ pc' = "encoder"
    /\ UNCHANGED <<config, pooler, encoder_outputs, model_outputs>>
    /\ UNCHANGED <<position_vars, head_vars>>

\* XLMRobertaEncoder.__call__ called directly, up to its loop.
EncoderCall ==
    /\ pc = "idle"
    /\ \E input_ids \in InputIds(config), masked \in BOOLEAN,
          head_mask \in {None} \cup {Some(m) : m \in HeadMasks(config)},
          output_attentions \in BOOLEAN, output_hidden_states \in BOOLEAN :
          LET attention_mask == IF masked
                                THEN Some(PaddingMask(input_ids, config.pad_token_id))
                                ELSE None
          IN  \E hidden_states \in {XLMRobertaEmbeddings(config, Some(input_ids), None,
                                                          None, None).embeddings} :
              /\ encoder_input' = Some(hidden_states)
              /\ enc' = Some(EncoderEntry(hidden_states, attention_mask, head_mask,
                                          output_attentions, output_hidden_states))
    /\ caller' = "Encoder"
    /\ i' = 0
    /\ pc' = "encoder"
    /\ UNCHANGED <<config, pooler, m_input_ids, m_position_ids, want_hidden_states,
                   want_attentions, position_ids_used, encoder_outputs, model_outputs>>
    /\ UNCHANGED <<position_vars, head_vars>>

\* One iteration of the encoder's loop over its layers.
EncoderLayerStep ==
    /\ pc = "encoder"
    /\ i < config.num_hidden_layers
    /\ enc' = Some(EncoderIteration(config, i, enc[1]))
    /\ i' = i + 1
    /\ UNCHANGED <<config, pooler, pc, caller, m_input_ids, m_position_ids,
                   want_hidden_states, want_attentions, position_ids_used, encoder_input,
                   encoder_outputs, model_outputs>>
    /\ UNCHANGED <<position_vars, head_vars>>

\* The encoder's loop is over: it returns its tuple.
EncoderReturn ==
    /\ pc = "encoder"
    /\ i = config.num_hidden_layers
    /\ encoder_outputs' = EncoderResult(enc[1])
    /\ pc' = IF caller = "Model" THEN "encoder_returned" ELSE "done"
    /\ UNCHANGED <<config, pooler, caller, m_input_ids, m_position_ids, want_hidden_states,
                   want_attentions, position_ids_used, encoder_input, enc, i, model_outputs>>
    /\ UNCHANGED <<position_vars, head_vars>>

\* Model.__call__ after the encoder returned: the pooler, then the result tuple.
ModelReturn ==
    /\ pc = "encoder_returned"
    /\ model_outputs' = ModelResult(config, pooler, encoder_outputs)
    /\ pc' = "done"
    /\ UNCHANGED <<config, pooler, caller, m_input_ids, m_position_ids, want_hidden_states,
                   want_attentions, position_ids_used, encoder_input, enc, i, encoder_outputs>>
    /\ UNCHANGED <<position_vars, head_vars>>

Next ==
    \/ ModelCall
    \/ EncoderCall
    \/ EncoderLayerStep
    \/ EncoderReturn
    \/ ModelReturn

Spec == Init /\ [][Next]_vars

\* ------------------------------------------- the position indexer's calls
\* the input of the documented example: [[1, 1, 5, 6, 1]]
ExampleInputIds == Tensor(<<1, 5>>, <<1, 1, 5, 6, 1>>)

PositionInputIds ==
    UNION {Tensors2(sh[1], sh[2], 0..MaxTok) : sh \in Shapes} \cup {ExampleInputIds}

InitPositions ==
    /\ p_input_ids \in {Some(t) : t \in PositionInputIds}
    /\ p_padding_idx \in 0..MaxTok
    /\ p_past \in 0..MaxPast
    /\ p_result = None
    /\ p_result_default = None
    /\ config = None
    /\ ModelIdle
    /\ HeadsIdle

\* create_position_ids_from_input_ids(input_ids, padding_idx, past_key_values_length)
PositionsCall ==
    /\ p_result = None
    /\ p_result' = Some(create_position_ids_from_input_ids(p_input_ids[1], p_padding_idx, p_past))
    /\ UNCHANGED <<p_input_ids, p_padding_idx, p_past, p_result_default>>
    /\ UNCHANGED <<model_vars, head_vars>>

\* create_position_ids_from_input_ids(input_ids, padding_idx)
PositionsCallDefault ==
    /\ p_result_default = None
    /\ p_result_default' = Some(create_position_ids_from_input_ids(p_input_ids[1], p_padding_idx, 0))
    /\ UNCHANGED <<p_input_ids, p_padding_idx, p_past, p_result>>
    /\ UNCHANGED <<model_vars, head_vars>>

NextPositions ==
    \/ PositionsCall
    \/ PositionsCallDefault

SpecPositions == InitPositions /\ [][NextPositions]_vars

\* ------------------------------------------------ head split and merge
MaxHeads == 2
MaxHeadSize == 2

\* a (batch, seq, hidden) tensor whose element at flat index k is (m * k) % q
PatternTensor(shape, m, q) == Build(shape, LAMBDA k : (m * k) % q)

\* attention probabilities of shape (batch, heads, seq, seq) that are the
\* identity matrix for every batch and head, in units of 1/PUnit
IdentityProbs(b, h, n) ==
    Build(<<b, h, n, n>>, LAMBDA k : IF (k \div n) % n = k % n THEN PUnit ELSE 0)

InitHeads ==
    /\ h_config \in {Some([hidden_size |-> nh * hs, num_attention_heads |-> nh]) :
                        nh \in 1..MaxHeads, hs \in 1..MaxHeadSize}
    /\ h_x \in {Some(PatternTensor(<<sh[1], sh[2], h_config[1].hidden_size>>, m, 97)) :
                   sh \in Shapes, m \in {1, 3, 5}}
    /\ h_split = None
    /\ h_merged = None
    /\ h_context = None
    /\ config = None
    /\ ModelIdle
    /\ PositionsIdle

\* values = self.transpose_for_scores(values)
HeadsSplit ==
    /\ h_split = None
    /\ h_split' = Some(transpose_for_scores(h_config[1], h_x[1]))
    /\ UNCHANGED <<h_config, h_x, h_merged, h_context>>
    /\ UNCHANGED <<model_vars, position_vars>>

\* the split tensor merged as lines 123-125 merge the context
HeadsMerge ==
    /\ h_split # None
    /\ h_merged = None
    /\ h_merged' = Some(merge_heads(h_config[1], h_split[1]))
    /\ UNCHANGED <<h_config, h_x, h_split, h_context>>
    /\ UNCHANGED <<model_vars, position_vars>>

\* lines 122-125 under attention probabilities that are the identity matrix
HeadsIdentityAttention ==
    /\ h_split # None
    /\ h_context = None
    /\ h_context' =
           Some(merge_heads(h_config[1],
                            WeightedSum(IdentityProbs(h_split[1].shape[1], h_split[1].shape[2],
                                                      h_split[1].shape[3]),
                                        h_split[1])))
    /\ UNCHANGED <<h_config, h_x, h_split, h_merged>>
    /\ UNCHANGED <<model_vars, position_vars>>

NextHeads ==
    \/ HeadsSplit
    \/ HeadsMerge
    \/ HeadsIdentityAttention

SpecHeads == InitHeads /\ [][NextHeads]_vars

\* ================================================================== claims
\* the number of non-padding tokens in row b of x at indices 0..idx
NonPadCount(x, b, idx, pad) == Cardinality({j \in 0..idx : At2(x, b, j) # pad})

\* the padding-aware position of the claims at (b, idx), without an offset
PaddingAware(x, b, idx, pad) ==
    IF At2(x, b, idx) # pad THEN pad + NonPadCount(x, b, idx, pad) ELSE pad

Rows(x) == 0..(x.shape[1] - 1)

Cols(x) == 0..(x.shape[2] - 1)

\* C2: with no past offset the position indexer returns a result of the input's
\* shape in which a non-padding token gets padding_idx plus the number of
\* non-padding tokens up to and including it, and a padding token gets
\* padding_idx; [[1,1,5,6,1]] with padding_idx 1 gives [[1,1,2,3,1]].
C2_PaddingAwarePositions ==
    p_result_default # None =>
        LET x == p_input_ids[1]
            r == p_result_default[1]
        IN  /\ r.shape = x.shape
            /\ \A b \in Rows(x), idx \in Cols(x) :
                   At2(r, b, idx) = PaddingAware(x, b, idx, p_padding_idx)
            /\ (x = ExampleInputIds /\ p_padding_idx = 1)
                   => r = Tensor(<<1, 5>>, <<1, 1, 2, 3, 1>>)

\* C2 witness: the documented example has been computed.
C2_Witness ==
    /\ p_result_default # None
    /\ p_input_ids[1] = ExampleInputIds
    /\ p_padding_idx = 1
    /\ p_result_default[1].data = <<1, 1, 2, 3, 1>>

\* C7 as claimed: the position returned with offset p equals the position
\* returned with offset 0 plus p, at every (b, i).
C7_PastAddedToEveryPosition ==
    (p_result # None /\ p_result_default # None) =>
        \A b \in Rows(p_input_ids[1]), idx \in Cols(p_input_ids[1]) :
            At2(p_result[1], b, idx) = At2(p_result_default[1], b, idx) + p_past

\* C7 amended: the offset is added to the position of every non-padding token;
\* a padding token keeps padding_idx whatever the offset.
C7_PastAddedToNonPadding ==
    (p_result # None /\ p_result_default # None) =>
        \A b \in Rows(p_input_ids[1]), idx \in Cols(p_input_ids[1]) :
            At2(p_result[1], b, idx) =
                IF At2(p_input_ids[1], b, idx) # p_padding_idx
                THEN At2(p_result_default[1], b, idx) + p_past
                ELSE p_padding_idx

\* C7 witness: both calls made with a positive offset on an input that holds a
\* padding and a non-padding token.
C7_Witness ==
    /\ p_result # None
    /\ p_result_default # None
    /\ p_past > 0
    /\ \E b \in Rows(p_input_ids[1]), c1 \in Cols(p_input_ids[1]), c2 \in Cols(p_input_ids[1]) :
           /\ At2(p_input_ids[1], b, c1) = p_padding_idx
           /\ At2(p_input_ids[1], b, c2) # p_padding_idx
           /\ At2(p_result[1], b, c1) = p_padding_idx
           /\ At2(p_result[1], b, c2) = At2(p_result_default[1], b, c2) + p_past

\* C10: splitting with transpose_for_scores gives a (batch, heads, seq,
\* head_size) tensor in which channel c of token s is in head c div head_size at
\* slot c mod head_size; merging it back reproduces the tensor element for
\* element, and so does the merged context under identity attention.
C10_SplitMergeRoundTrip ==
    /\ h_split # None =>
           LET x == h_x[1]
               heads == h_config[1].num_attention_heads
               head_size == h_config[1].hidden_size \div heads
           IN  /\ h_split[1].shape = <<x.shape[1], heads, x.shape[2], head_size>>
               /\ \A b \in 0..(x.shape[1] - 1), t \in 0..(x.shape[2] - 1),
                      c \in 0..(x.shape[3] - 1) :
                      At4(h_split[1], b, c \div head_size, t, c % head_size) = At3(x, b, t, c)
    /\ h_merged # None => h_merged[1] = h_x[1]
    /\ h_context # None => h_context[1] = h_x[1]

\* C10 witness: a tensor of two sequences of two tokens, split into two heads
\* of two channels, has been merged back both ways.
C10_Witness ==
    /\ h_merged # None
    /\ h_context # None
    /\ h_x[1].shape = <<2, 2, 4>>
    /\ h_config[1].num_attention_heads = 2
    /\ h_split[1].data # h_x[1].data
    /\ h_merged[1] = h_x[1]
    /\ h_context[1] = h_x[1]

\* the encoder has returned
EncoderReturned == pc \in {"encoder_returned", "done"}

Bit(flag) == IF flag THEN 1 ELSE 0

\* C1 as claimed: whenever input_ids is given and position_ids is not, the
\* position ids at the position-embedding lookup are the padding-aware ones,
\* for every batch row b and index i.
C1_EmbeddingsUsePaddingAwarePositions ==
    (position_ids_used # None /\ m_input_ids # None /\ m_position_ids = None) =>
        LET x == m_input_ids[1]
            used == position_ids_used[1]
            aware == create_position_ids_from_input_ids(x, config.pad_token_id, 0)
        IN  \A b \in Rows(x), idx \in Cols(x) :
                /\ At2(used, IF used.shape[1] = 1 THEN 0 ELSE b, idx) = At2(aware, b, idx)
                /\ At2(aware, b, idx) = PaddingAware(x, b, idx, config.pad_token_id)

\* C3 as claimed: the encoder's result reports a non-requested accumulation as
\* an absent marker, so that the result alone tells which element is the
\* hidden-state history and which the attention sequence.
C3_AbsentMarkerReported ==
    EncoderReturned =>
        /\ Len(encoder_outputs) = 3
        /\ encoder_outputs[2] # PyNone <=> enc[1].output_hidden_states
        /\ encoder_outputs[3] # PyNone <=> enc[1].output_attentions

\* C3 amended: the encoder's result omits a non-requested accumulation: it is
\* the final hidden state, then the history of num_hidden_layers + 1 states if
\* requested, then the attention sequence of num_hidden_layers elements if
\* requested (an empty tuple when there is no layer), and never holds None.
C3_NonRequestedOmitted ==
    EncoderReturned =>
        LET ohs == enc[1].output_hidden_states
            oa == enc[1].output_attentions
        IN  /\ Len(encoder_outputs) = 1 + Bit(ohs) + Bit(oa)
            /\ encoder_outputs[1].kind = "tensor"
            /\ \A n \in 1..Len(encoder_outputs) : encoder_outputs[n] # PyNone
            /\ ohs => /\ encoder_outputs[2].kind = "tuple"
                      /\ Len(encoder_outputs[2].items) = config.num_hidden_layers + 1
            /\ oa => /\ encoder_outputs[2 + Bit(ohs)].kind = "tuple"
                     /\ Len(encoder_outputs[2 + Bit(ohs)].items) = config.num_hidden_layers

\* C3 witness: an encoder without layers, asked for the attentions only, has
\* returned the empty attention sequence as its second element.
C3_Witness ==
    /\ EncoderReturned
    /\ config.num_hidden_layers = 0
    /\ enc[1].output_attentions
    /\ ~enc[1].output_hidden_states
    /\ encoder_outputs[2] = PyTuple(<<>>)

\* C4 as claimed: Model.__call__ returns sequence_output, pooled_output and
\* then every accumulation its caller wanted: the hidden-state history, then
\* the attention probabilities.
C4_ModelReturnsRequestedAccumulations ==
    (pc = "done" /\ caller = "Model") =>
        /\ Len(model_outputs) = 2 + Bit(want_hidden_states) + Bit(want_attentions)
        /\ model_outputs[1].kind = "tensor"
        /\ want_hidden_states =>
               /\ model_outputs[3].kind = "tuple"
               /\ Len(model_outputs[3].items) = config.num_hidden_layers + 1
        /\ want_attentions =>
               /\ model_outputs[3 + Bit(want_hidden_states)].kind = "tuple"
               /\ Len(model_outputs[3 + Bit(want_hidden_states)].items) = config.num_hidden_layers

\* C5: without a pooling layer no pooler is built and Model.__call__ returns
\* None as pooled_output at position 1, with sequence_output at position 0; with
\* one, pooled_output is the pooler applied to the encoder's final hidden state.
C5_PooledOutput ==
    /\ pc # "off" => (pooler = None <=> ~config.add_pooling_layer)
    /\ pc = "encoder_returned" => ENABLED ModelReturn
    /\ (pc = "done" /\ caller = "Model") =>
           /\ Len(model_outputs) >= 2
           /\ model_outputs[1] = PyTensor(enc[1].hidden_states)
           /\ model_outputs[2] =
                  IF config.add_pooling_layer
                  THEN PyTensor(XLMRobertaPooler(config, enc[1].hidden_states))
                  ELSE PyNone

\* C5 witness: a Model built without a pooling layer has returned.
C5_Witness ==
    /\ pc = "done"
    /\ caller = "Model"
    /\ ~config.add_pooling_layer
    /\ config.num_hidden_layers > 0
    /\ model_outputs[1].kind = "tensor"
    /\ model_outputs[2] = PyNone

\* the hidden state after the first k layers, each applied to the output of
\* the one before it, layer 0 to h
RECURSIVE LayersApplied(_, _, _, _, _, _)
LayersApplied(cfg, k, h, attention_mask, head_mask, output_attentions) ==
    IF k = 0 THEN h
    ELSE Force(LayersApplied(cfg, k - 1, h, attention_mask, head_mask, output_attentions),
               LAMBDA below :
                   XLMRobertaLayer(cfg, k - 1, below, attention_mask,
                                   LayerHeadMask(head_mask, k - 1),
                                   output_attentions).outputs[1])

\* the hidden state the running encoder call must hold after k layers
After(k) ==
    LayersApplied(config, k, encoder_input[1], enc[1].attention_mask, enc[1].head_mask,
                  enc[1].output_attentions)

\* C6: the encoder applies its layers in index order, each to the output of
\* the one before it and layer 0 to the encoder's input; the returned history
\* has num_hidden_layers + 1 elements, the input first, then the output of every
\* layer in order, and its last element is the final hidden state returned.
C6_LayersInOrderAndHistory ==
    /\ (pc = "encoder" /\ i = 0) => enc[1].hidden_states = encoder_input[1]
    /\ (pc = "encoder" /\ i > 0) => enc[1].hidden_states = enc[1].layer[1].outputs[1]
    /\ (pc = "encoder" /\ i = config.num_hidden_layers /\ ~enc[1].output_hidden_states) =>
           enc[1].hidden_states = After(i)
    /\ EncoderReturned => encoder_outputs[1] = PyTensor(enc[1].hidden_states)
    /\ (EncoderReturned /\ enc[1].output_hidden_states) =>
           LET history == encoder_outputs[2].items
           IN  /\ Len(history) = config.num_hidden_layers + 1
               /\ history[1] = encoder_input[1]
               /\ \A k \in 1..config.num_hidden_layers :
                      history[k + 1] =
                          XLMRobertaLayer(config, k - 1, history[k], enc[1].attention_mask,
                                          LayerHeadMask(enc[1].head_mask, k - 1),
                                          enc[1].output_attentions).outputs[1]
               /\ PyTensor(history[Len(history)]) = encoder_outputs[1]

\* C6 witness: an encoder of two layers has returned a history of three
\* different hidden states.
C6_Witness ==
    /\ EncoderReturned
    /\ enc[1].output_hidden_states
    /\ config.num_hidden_layers = 2
    /\ Len(encoder_outputs[2].items) = 3
    /\ encoder_outputs[2].items[1] # encoder_outputs[2].items[2]
    /\ encoder_outputs[2].items[2] # encoder_outputs[2].items[3]
    /\ encoder_outputs[2].items[1] # encoder_outputs[2].items[3]

\* C8: the returned attention sequence has num_hidden_layers elements, element
\* k the attention probabilities of layer k's self-attention; the attention
\* block and the layer return them unchanged as element 1 of their results, and
\* return a 1-element result when attentions are not requested.
C8_AttentionsPerLayer ==
    /\ (pc \in {"encoder", "encoder_returned", "done"} /\ enc[1].layer # None) =>
           LET frame == enc[1].layer[1]
               n == IF enc[1].output_attentions THEN 2 ELSE 1
           IN  /\ Len(frame.self_outputs) = n
               /\ Len(frame.attention_outputs) = n
               /\ Len(frame.outputs) = n
               /\ enc[1].output_attentions =>
                      /\ frame.attention_outputs[2] = frame.self_outputs[2]
                      /\ frame.outputs[2] = frame.self_outputs[2]
    /\ (EncoderReturned /\ enc[1].output_attentions) =>
           LET attentions == encoder_outputs[Len(encoder_outputs)].items
           IN  /\ Len(attentions) = config.num_hidden_layers
               /\ \A k \in 1..config.num_hidden_layers :
                      attentions[k] =
                          XLMRobertaSelfAttention(config, k - 1, After(k - 1),
                                                  enc[1].attention_mask,
                                                  LayerHeadMask(enc[1].head_mask, k - 1),
                                                  TRUE)[2]

\* C8 witness: an encoder of two layers, asked for the attentions only, has
\* returned two attention tensors of shape (batch, heads, seq, seq).
C8_Witness ==
    /\ EncoderReturned
    /\ enc[1].output_attentions
    /\ ~enc[1].output_hidden_states
    /\ config.num_hidden_layers = 2
    /\ Len(encoder_outputs[2].items) = 2
    /\ encoder_outputs[2].items[1].shape = <<2, 2, 2, 2>>
    /\ encoder_outputs[2].items[1] # encoder_outputs[2].items[2]

\* the parameters of layer k's attention-output and feed-forward-output dense maps
AttentionDense(k, x) ==
    Linear(WMat(7 * k + 4, config.hidden_size, config.hidden_size),
           WBias(7 * k + 4, config.hidden_size), x)

OutputDense(k, x) ==
    Linear(WMat(7 * k + 6, config.hidden_size, config.intermediate_size),
           WBias(7 * k + 6, config.hidden_size), x)

\* C9: in every layer call the attention output is LayerNorm(dense(context) +
\* layer_input) and the layer output is LayerNorm(dense(intermediate_output) +
\* attention_output): the sum is normalized, and the second residual is the
\* attention block's output.
C9_ResidualThenNormalize ==
    (pc = "encoder" /\ i > 0) =>
        LET frame == enc[1].layer[1]
            k == i - 1
            attention_output == frame.attention_outputs[1]
        IN  /\ attention_output =
                   LayerNorm(Add(AttentionDense(k, frame.self_outputs[1]), frame.hidden_states))
            /\ frame.intermediate_output = XLMRobertaIntermediate(config, k, attention_output)
            /\ frame.outputs[1] =
                   LayerNorm(Add(OutputDense(k, frame.intermediate_output), attention_output))

\* C9 witness: a layer has run on an input where normalizing before adding
\* the residual, or taking the layer input as the second residual, would have
\* given another result.
C9_Witness ==
    /\ pc = "encoder"
    /\ enc[1].layer # None
    /\ LET frame == enc[1].layer[1]
           k == i - 1
       IN  /\ frame.attention_outputs[1] #
                  Add(LayerNorm(AttentionDense(k, frame.self_outputs[1])), frame.hidden_states)
           /\ frame.outputs[1] #
                  LayerNorm(Add(OutputDense(k, frame.intermediate_output), frame.hidden_states))
           /\ frame.outputs[1] #
                  Add(LayerNorm(OutputDense(k, frame.intermediate_output)),
                      frame.attention_outputs[1])

====
